---- MODULE Spec2Model ----
(***************************************************************************)
(* State-machine model of the hoyasim panorama viewer:                     *)
(*   src/src/components/ThreeView.tsx (the component exported at line 433),*)
(*   src/src/pages/Scene.tsx and src/src/lib/glasses.ts.                   *)
(*                                                                         *)
(* Every run of the scene effect (ThreeView.tsx:472-664) creates a closure *)
(* with its own camera, load counters and animation frame.  A closure is   *)
(* identified by the ordinal of the effect run (1, 2, ...); closures of    *)
(* torn-down scenes stay in the state because their load callbacks can     *)
(* still fire.  The drag variables are kept for the live closure only: the *)
(* cleanup removes the listeners that read them.  React's phases are       *)
(* separate steps: a state update, the render that follows it, and the     *)
(* effects of that render.  Angles are kept in tenths of a degree for      *)
(* the drag controls (sensitivity 0.1 degree per pixel) and in degrees for *)
(* the sensor readings.  A camera rotation is kept as the symbolic product *)
(* the code builds, not as four floats.                                    *)
(*                                                                         *)
(* A lens engine is the object one call of loadGlasses returns; it is      *)
(* identified by the closure that started the load.  Group offsets are     *)
(* kept in units of 10^-6, the polar angle in tenths of a degree, the      *)
(* left-lens opacities and the right-lens gradient offset as exact         *)
(* rationals over fixed denominators.                                      *)
(***************************************************************************)
EXTENDS Integers, Sequences, FiniteSets, TLC

\* ---------------------------------------------------------------- bounds
MaxNav == 1          \* scene changes explored
MaxModels == 2       \* largest model list of a scene configuration
MaxLon == 100        \* |longitude| explored, tenths of a degree
MaxLat == 900        \* |latitude| explored between ticks, tenths of a degree
MaxPending == 1      \* requestPermission() calls in flight
MaxSwaps == 2        \* calls of swapLeft / swapRight on one lens engine

SceneNames == {"biking", "office"}            \* Scene.tsx:29-50
Epochs == 1..(MaxNav + 1)
ModelTables == [SceneNames -> 0..MaxModels]

\* pointer positions (client pixels) and sensor samples offered to the model
Xs == {0, 100}
Ys == {0, 900}
\* pointer heights of a vertical drag pressed at mid-screen (y = 900): one pixel
\* is 0.1 degree, so y = 900 + d looks d tenths of a degree above the horizon
YsFine == {0, 500, 675, 890, 895, 900, 902, 905, 908, 910, 1080, 1200, 1800}
Absent == << >>                               \* a null event field
Alphas == {Absent, <<0>>, <<40>>}
Betas == {Absent, <<90>>}
Gammas == {Absent, <<10>>}
Orients == {0, 90}
Outcomes == {"granted", "denied", "rejected"}
Sizes == {<<800, 600>>, <<600, 800>>}  \* window sizes: landscape, portrait

VARIABLES
  isIOS,            \* typeof DeviceOrientationEvent.requestPermission === 'function'
  models,           \* scene name -> number of models in its configuration
  route,            \* scene selected by the router (Scene.tsx sceneConfig)
  mounted,          \* ThreeView is mounted
  navs,             \* scene changes so far
  image,            \* props of the last ThreeView render
  effPending,       \* effects of the last render have not run yet
  effImage,         \* image dependency of the last scene / sensor effect run
  effGyro,          \* gyroActive dependency of the last sensor effect run
  gyroActive,       \* Scene.tsx state
  gyroActiveRef,    \* gyroActiveRef.current, synced at render
  showEnableButton, \* ThreeView state
  permPending,      \* requestPermission() calls awaiting their result
  permResult,       \* result of the last settled requestPermission()
  loading,          \* ThreeView state; the scene is ready when it is FALSE
  nEpoch,           \* scene effect runs so far
  cur,              \* closure of the live scene effect, 0 when none
  sceneOf,          \* closure -> scene name it was created for
  texReq,           \* closure -> "pending" | "done" | "failed" : texture load
  modelReq,         \* closure -> model load callbacks not yet run
  textureLoaded,    \* closure -> let textureLoaded
  modelsLoaded,     \* closure -> let modelsLoaded
  lens,             \* closure -> "loading" | "attached" | "disposed" | "rejected"
  cameraRef,        \* cameraRef.current (closure whose camera it is)
  glassesRef,       \* glassesRef.current (closure whose lens engine), 0 = null
  glassesControls,  \* Scene.tsx state (closure whose swap functions), 0 = null
  raf,              \* closure -> an animation frame is requested
  listening,        \* closure -> pointer and resize listeners attached
  isUserInteracting, startX, startY, onPointerDownLon, onPointerDownLat,
                    \* the let variables of the live closure (ThreeView.tsx:557-561);
                    \* those of a torn-down closure are unreachable, its listeners are removed
  lonRef, latRef,   \* lonRef.current, latRef.current (tenths of a degree)
  camQuat,          \* closure -> camera.quaternion (symbolic)
  probeOn,          \* testOrientation is registered on window
  sensorCam,        \* closure whose camera onDeviceOrientation writes, 0 = no listener
  alphaOffset, hasInitialized,
  lastAlpha,        \* event.alpha of the last device-orientation event, Absent before any
  lastTick,         \* what the last run of animate did
  lastFrame,        \* the lens state the last renderer.render call drew
  lastMove,         \* <<lon, lat>> written by the last pointer move while pressed
  lastReading,      \* camera and rotation written by the last run of onDeviceOrientation
  leftSwapped, rightSwapped,
                    \* lens engine (closure that loaded it) -> let leftSwapped / rightSwapped
  positionY,        \* lens engine -> group -> group.position.y, in units of 10^-6
  targetY,          \* lens engine -> group -> group.userData.targetY, Absent while undefined
  animating,        \* lens engine -> group -> group.userData.animating, Absent while undefined
  opacityA, opacityB,
                    \* lens engine -> material opacity of refs.lensAMesh / refs.lensBMesh,
                    \* in units of 10^-9
  gradient,         \* lens engine -> the linear gradient drawn on refs.gradCanvas
  swapCalls,        \* lens engine -> eye -> calls of its swap function so far
  altOpacityA, altOpacityB,
                    \* lens engine -> opacity of matAAlt / matBAlt (leftGroupAlt), 10^-9
  altGradient,      \* lens engine -> the gradient on the canvas of gradTexAlt
  flight,           \* lens engine -> eye -> runs of animateSwap since the last swap of
                    \* the eye that found its primary group animating
  onReadyProp,      \* the parent passes an onReady callback to ThreeView
  onReadyAt,        \* closure -> what the loading state was when it called onReady,
                    \* "none" while it has not
  innerSize,        \* <<window.innerWidth, window.innerHeight>>
  camera            \* closure -> position (hundredths) and aspect of its camera

reactVars == <<route, mounted, navs, image, effPending, effImage, effGyro>>
modeVars == <<gyroActive, gyroActiveRef, showEnableButton, permPending, permResult>>
loadVars == <<loading, texReq, modelReq, textureLoaded, modelsLoaded>>
lensVars == <<lens, glassesRef, glassesControls>>
epochVars == <<nEpoch, cur, sceneOf, cameraRef, raf, listening>>
dragVars == <<isUserInteracting, startX, startY, onPointerDownLon, onPointerDownLat>>
viewVars == <<lonRef, latRef, camQuat, lastTick, lastFrame, lastMove, lastReading>>
sensorVars == <<probeOn, sensorCam, alphaOffset, hasInitialized, lastAlpha>>
altVars == <<altOpacityA, altOpacityB, altGradient>>
engineVars == <<leftSwapped, rightSwapped, positionY, targetY, animating,
                opacityA, opacityB, gradient, swapCalls, flight, altVars>>
readyVars == <<onReadyProp, onReadyAt>>
cameraVars == <<innerSize, camera>>
vars == <<isIOS, models, reactVars, modeVars, loadVars, lensVars, epochVars,
          dragVars, viewVars, sensorVars, engineVars, readyVars, cameraVars>>

\* ---------------------------------------------------------------- helpers
Max(a, b) == IF a >= b THEN a ELSE b
Min(a, b) == IF a <= b THEN a ELSE b
Abs(a) == IF a >= 0 THEN a ELSE -a

IsNull(f) == f = Absent
Val(f) == f[1]

\* camera.lookAt(sin(phi)cos(theta), cos(phi), sin(phi)sin(theta)) with
\* phi = degToRad(90 - lat), theta = degToRad(lon): the rotation is determined
\* by the pair (lon, lat).
lookAt(lon, lat) == [kind |-> "lookAt", lon |-> lon, lat |-> lat]

\* quaternion.setFromEuler(euler.set(beta, alpha, -gamma, 'YXZ'))
\*   .multiply(q1).multiply(q0.setFromAxisAngle(zee, -orient))
setObjectQuaternion(alpha, beta, gamma, orient) ==
  [kind |-> "sensor", x |-> beta, y |-> alpha, z |-> -gamma, zee |-> -orient]

IdentityQuat == [kind |-> "identity"]

\* ---------------------------------------------------------------- loading
\* const totalModels = models?.length || 0
totalModels(e) == models[sceneOf[e]]

checkLoadingComplete_noCount(tl, ml, total, old) == IF tl THEN FALSE ELSE old
checkLoadingComplete_assign(tl, ml, total, old) == ~(tl /\ ml = total)
\* if (textureLoaded && modelsLoaded === totalModels) setLoading(false)
checkLoadingComplete(tl, ml, total, old) ==
  IF tl /\ ml = total THEN FALSE ELSE old

\* TextureLoader / EXRLoader / RGBELoader onLoad callback of closure e.  The
\* loaders are never aborted, so the callback also runs for a torn-down scene.
onTextureLoaded(e) ==
  /\ e <= nEpoch
  /\ texReq[e] = "pending"
  /\ texReq' = [texReq EXCEPT ![e] = "done"]
  /\ textureLoaded' = [textureLoaded EXCEPT ![e] = TRUE]
  /\ loading' = IF mounted
                THEN checkLoadingComplete(TRUE, modelsLoaded[e], totalModels(e), loading)
                ELSE loading
  /\ UNCHANGED <<modelReq, modelsLoaded>>
  /\ UNCHANGED <<isIOS, models, cameraVars, readyVars, engineVars, reactVars, modeVars, lensVars, epochVars,
                 dragVars, viewVars, sensorVars>>

\* gltfLoader.load callback of one model of closure e
onModelLoaded(e) ==
  /\ e <= nEpoch
  /\ modelReq[e] > 0
  /\ modelReq' = [modelReq EXCEPT ![e] = @ - 1]
  /\ modelsLoaded' = [modelsLoaded EXCEPT ![e] = @ + 1]
  /\ loading' = IF mounted
                THEN checkLoadingComplete(textureLoaded[e], modelsLoaded[e] + 1,
                                          totalModels(e), loading)
                ELSE loading
  /\ UNCHANGED <<texReq, textureLoaded>>
  /\ UNCHANGED <<isIOS, models, cameraVars, readyVars, engineVars, reactVars, modeVars, lensVars, epochVars,
                 dragVars, viewVars, sensorVars>>

\* The texture loaders are given no onError callback (ThreeView.tsx:516-522):
\* a failed load runs no callback of the closure.
onTextureFailed(e) ==
  /\ e <= nEpoch
  /\ texReq[e] = "pending"
  /\ texReq' = [texReq EXCEPT ![e] = "failed"]
  /\ UNCHANGED <<loading, modelReq, textureLoaded, modelsLoaded>>
  /\ UNCHANGED <<isIOS, models, cameraVars, readyVars, engineVars, reactVars, modeVars, lensVars,
                 epochVars, dragVars, viewVars, sensorVars>>

\* gltfLoader.load(model.path, onLoad) has no onError either (ThreeView.tsx:540):
\* one model load of closure e ends without its callback
onModelFailed(e) ==
  /\ e <= nEpoch
  /\ modelReq[e] > 0
  /\ modelReq' = [modelReq EXCEPT ![e] = @ - 1]
  /\ UNCHANGED <<loading, texReq, textureLoaded, modelsLoaded>>
  /\ UNCHANGED <<isIOS, models, cameraVars, readyVars, engineVars, reactVars, modeVars, lensVars,
                 epochVars, dragVars, viewVars, sensorVars>>

\* model loads of closure e that ended without their callback
modelsFailed(e) == totalModels(e) - modelReq[e] - modelsLoaded[e]

\* ---------------------------------------------------------------- lens engine
\* glasses.dispose(): camera.remove(leftGroup, rightGroup, leftGroupAlt, rightGroupAlt)
dispose(l, g) == IF g = 0 THEN l ELSE [l EXCEPT ![g] = "disposed"]

\* loadGlasses(camera) resolves: camera.add(the four groups) at glasses.ts:299,
\* then the .then callback of ThreeView.tsx:601-607.
onGlassesLoaded(e) ==
  /\ e <= nEpoch
  /\ lens[e] = "loading"
  /\ lens' = [lens EXCEPT ![e] = "attached"]
  /\ glassesRef' = e
  /\ glassesControls' = IF mounted THEN e ELSE glassesControls
  /\ UNCHANGED <<isIOS, models, cameraVars, readyVars, engineVars, reactVars, modeVars, loadVars, epochVars,
                 dragVars, viewVars, sensorVars>>


\* The four groups loadGlasses builds (glasses.ts:162-165) and their eyes.
Groups == {"leftGroup", "rightGroup", "leftGroupAlt", "rightGroupAlt"}
Eyes == {"left", "right"}
primaryOf(eye) == IF eye = "left" THEN "leftGroup" ELSE "rightGroup"
alternateOf(eye) == IF eye = "left" THEN "leftGroupAlt" ELSE "rightGroupAlt"

\* userData fields are undefined until a swap sets them; undefined is falsy
truthy(f) == f = <<TRUE>>

\* 0.6, the vertical travel of a swap, in units of 10^-6
travel == 600000
\* 0.001, the distance below which animateSwap snaps, in units of 10^-6
snap == 1000

toggle_set(b) == TRUE
\* leftSwapped = !leftSwapped
toggle(b) == ~b

primaryTarget_stay(swapped) == 0
\* leftGroup.userData.targetY = leftSwapped ? 0.6 : 0
primaryTarget(swapped) == IF swapped THEN travel ELSE 0
\* leftGroupAlt.userData.targetY = leftSwapped ? 0 : -0.6
alternateTarget(swapped) == IF swapped THEN 0 ELSE -travel

\* the userData writes of swapLeft / swapRight for one eye
swapTargets(t, eye, swapped) ==
  [t EXCEPT ![primaryOf(eye)] = <<primaryTarget(swapped)>>,
            ![alternateOf(eye)] = <<alternateTarget(swapped)>>]
swapFlags_all(a, eye) == [grp \in Groups |-> <<TRUE>>]
swapFlags(a, eye) ==
  [a EXCEPT ![primaryOf(eye)] = <<TRUE>>, ![alternateOf(eye)] = <<TRUE>>]

\* swapLeft() of lens engine g (glasses.ts:364-371)
swapLeft(g) ==
  /\ swapCalls[g]["left"] + swapCalls[g]["right"] < MaxSwaps
  /\ leftSwapped' = [leftSwapped EXCEPT ![g] = toggle(@)]
  /\ targetY' = [targetY EXCEPT ![g] = swapTargets(@, "left", leftSwapped'[g])]
  /\ animating' = [animating EXCEPT ![g] = swapFlags(@, "left")]
  /\ swapCalls' = [swapCalls EXCEPT ![g]["left"] = @ + 1]
  /\ flight' = [flight EXCEPT ![g]["left"] = 0]
  /\ UNCHANGED <<rightSwapped, positionY, opacityA, opacityB, gradient, altVars>>
  /\ UNCHANGED <<isIOS, models, cameraVars, readyVars, reactVars, modeVars, loadVars, lensVars, epochVars,
                 dragVars, viewVars, sensorVars>>

\* swapRight() of lens engine g (glasses.ts:374-380)
swapRight(g) ==
  /\ swapCalls[g]["left"] + swapCalls[g]["right"] < MaxSwaps
  /\ rightSwapped' = [rightSwapped EXCEPT ![g] = toggle(@)]
  /\ targetY' = [targetY EXCEPT ![g] = swapTargets(@, "right", rightSwapped'[g])]
  /\ animating' = [animating EXCEPT ![g] = swapFlags(@, "right")]
  /\ swapCalls' = [swapCalls EXCEPT ![g]["right"] = @ + 1]
  /\ flight' = [flight EXCEPT ![g]["right"] = 0]
  /\ UNCHANGED <<leftSwapped, positionY, opacityA, opacityB, gradient, altVars>>
  /\ UNCHANGED <<isIOS, models, cameraVars, readyVars, reactVars, modeVars, loadVars, lensVars, epochVars,
                 dragVars, viewVars, sensorVars>>

\* a click on a button of GlassesControls, which Scene.tsx:102-107 renders
\* with the functions held in the glassesControls state
onSwapLeft == mounted /\ glassesControls # 0 /\ swapLeft(glassesControls)
onSwapRight == mounted /\ glassesControls # 0 /\ swapRight(glassesControls)

lerp_whole(d) == d
\* (target - group.position.y) * speed with speed = 0.08, rounded to 10^-6
lerp(d) == IF d >= 0 THEN (d * 8 + 50) \div 100 ELSE -((-d * 8 + 50) \div 100)

animateSwapY_unguarded(y, t, a) ==
  LET tt == IF t = Absent THEN 0 ELSE t[1]
      ny == y + lerp(tt - y) IN
  IF Abs(ny - tt) < snap THEN tt ELSE ny
\* animateSwap, one group: the position after the loop body
animateSwapY(y, t, a) ==
  IF ~truthy(a) THEN y
  ELSE LET ny == y + lerp(t[1] - y) IN
       IF Abs(ny - t[1]) < snap THEN t[1] ELSE ny

\* animateSwap, one group: the loop body runs when group.userData.animating
flightTick(n, a) == IF truthy(a) THEN n + 1 ELSE n

animateSwapFlag_stuck(y, t, a) == a
\* animateSwap, one group: userData.animating after the loop body
animateSwapFlag(y, t, a) ==
  IF ~truthy(a) THEN a
  ELSE IF Abs(y + lerp(t[1] - y) - t[1]) < snap THEN <<FALSE>> ELSE a

\* const SIZE = 256 (pixels)
SIZE == 256
\* Math.PI / 2.5 and Math.PI / 1.6, in tenths of a degree
minPolarAngle == 720
maxPolarAngle == 1125

mapLinear_clamp(x, a1, a2, b1, b2) ==
  b1 * (a2 - a1) + (Max(a1, Min(a2, x)) - a1) * (b2 - b1)
mapLinear_flip(x, a1, a2, b1, b2) == b2 * (a2 - a1) + (x - a1) * (b1 - b2)
\* THREE.MathUtils.mapLinear(x, a1, a2, b1, b2) = b1 + (x - a1)(b2 - b1)/(a2 - a1),
\* returned multiplied by (a2 - a1)
mapLinear(x, a1, a2, b1, b2) == b1 * (a2 - a1) + (x - a1) * (b2 - b1)

\* createGradientCanvas (glasses.ts:96-120): offset = -SIZE * 0.2, colour
\* stops at 0, 0.45, 0.55, 1.  x0 is in units of 1/40500 pixel (angles in
\* tenths of a degree, pixels in hundredths), stops are in hundredths of
\* the gradient's length SIZE.
createGradientCanvas ==
  [x0 |-> -SIZE * 20 * (maxPolarAngle - minPolarAngle),
   stops |-> <<0, 45, 55, 100>>,
   colors |-> <<"#fff", "#000", "#000", "#fff">>]

updateGradient_static(polar, minPolar, maxPolar) == createGradientCanvas
\* update, right lens (glasses.ts:316-337): createLinearGradient(offset, 0,
\* SIZE + offset, 0) with offset = mapLinear(polarAngle, minPolar, maxPolar,
\* -SIZE * 0.3, SIZE * 0.02) and colour stops at 0, 0.35, 0.55, 1
updateGradient(polarAngle, minPolar, maxPolar) ==
  [x0 |-> mapLinear(polarAngle, minPolar, maxPolar, -SIZE * 30, SIZE * 2),
   stops |-> <<0, 35, 55, 100>>,
   colors |-> <<"#fff", "#000", "#000", "#fff">>]

\* THREE.MathUtils.smoothstep(x, min, max), returned multiplied by (max - min)^3
smoothstep(x, lo, hi) ==
  IF x <= lo THEN 0
  ELSE IF x >= hi THEN (hi - lo) * (hi - lo) * (hi - lo)
  ELSE (x - lo) * (x - lo) * (3 * (hi - lo) - 2 * (x - lo))

delta_down(polarAngle) == polarAngle - 900
\* const delta = neutral - polarAngle, neutral = Math.PI / 2 (tenths of a degree)
delta(polarAngle) == 900 - polarAngle

\* const eased = 1 - Math.pow(1 - t, 3) with t = smoothstep(delta, 0, Math.PI / 180),
\* in units of 10^-9 (t is in thousandths)
eased(polarAngle) ==
  LET t == smoothstep(delta(polarAngle), 0, 10) IN
  1000000000 - (1000 - t) * (1000 - t) * (1000 - t)

\* update, left lens (glasses.ts:339-360): mat.opacity of lensAMesh / lensBMesh
updateOpacityA(polarAngle) == 1000000000 - eased(polarAngle)
updateOpacityB(polarAngle) == eased(polarAngle)

refs_alt ==
  [lensAMesh |-> "leftGroupAlt", lensBMesh |-> "leftGroupAlt", gradCanvas |-> "rightGroupAlt"]
\* the group that holds what each field of refs points to: refs.lensAMesh and
\* refs.lensBMesh are the meshes with matA / matB added to leftGroup
\* (glasses.ts:213-214, 231), refs.gradCanvas is the canvas of rightMat
\* (260-263); the alternate groups get materials and a canvas of their own
\* (237-238, 284-285) that refs does not hold
refs ==
  [lensAMesh |-> "leftGroup", lensBMesh |-> "leftGroup", gradCanvas |-> "rightGroup"]

\* update writes through refs: the material or canvas of group grp gets the
\* new value only if the field points into that group
written(old, new, field, grp) == IF refs[field] = grp THEN new ELSE old

\* Math.acos(direction.y), direction = (0, 0, -1).applyQuaternion(camera.quaternion),
\* in tenths of a degree.  After lookAt the camera looks 90 - lat degrees from
\* the up vector (the 0.01 offset of the camera from the origin is neglected:
\* it vanishes on the horizon and for lon = 0).  For a sensor rotation
\* direction.y = -cos(beta)cos(gamma), which is 0 for the readings with
\* beta = 90 that are offered here; for the identity it is 0 as well.
polarAngle(q) == IF q.kind = "lookAt" THEN 900 - q.lat ELSE 900

\* A lens texture or geometry fails to load: loadTexture / loadGLB reject
\* (glasses.ts:36-53), the await in loadGlasses throws, and the promise that
\* loadGlasses returned to ThreeView is rejected.  ThreeView chains .then
\* without a rejection handler (ThreeView.tsx:601-607), so the callback does
\* not run and the rejection stays unhandled.
onGlassesFailed(e) ==
  /\ e <= nEpoch
  /\ lens[e] = "loading"
  /\ lens' = [lens EXCEPT ![e] = "rejected"]
  /\ UNCHANGED <<glassesRef, glassesControls>>
  /\ UNCHANGED <<isIOS, models, cameraVars, readyVars, engineVars, reactVars, modeVars, loadVars,
                 epochVars, dragVars, viewVars, sensorVars>>

\* ---------------------------------------------------------------- frame
clamp_off(lat) == lat
\* latRef.current = Math.max(-85, Math.min(85, latRef.current))
clamp(lat) == Max(-850, Min(850, lat))

animateLat_always(gyro, lat) == clamp(lat)
\* animate, ThreeView.tsx:617-618: the stored latitude after the drag branch
animateLat(gyro, lat) == IF ~gyro THEN clamp(lat) ELSE lat

animateQuat_always(gyro, lon, lat, q) == lookAt(lon, clamp(lat))
\* animate, ThreeView.tsx:617-626: the camera rotation after the drag branch
animateQuat(gyro, lon, lat, q) == IF ~gyro THEN lookAt(lon, clamp(lat)) ELSE q

\* the state of lens engine g that a frame shows: nothing while no engine is
\* referenced (glassesRef.current is null)
lensState(g) ==
  IF g = 0 THEN << >>
  ELSE <<[opacityA |-> opacityA[g], opacityB |-> opacityB[g],
          gradient |-> gradient[g], positionY |-> positionY[g]]>>

render_first(l0, l1) == l0
\* renderer.render(scene, camera) (ThreeView.tsx:638) comes after update and
\* animateSwap: of the lens state before (l0) and after (l1) those two calls
\* it draws the latter
render(l0, l1) == l1

\* what one run of animate did: whose frame, whether the drag branch ran
tickRecord(e, gyro) == [epoch |-> e, drag |-> ~gyro]

\* requestAnimationFrame callback of closure e (ThreeView.tsx:615-640)
animate(e) ==
  /\ raf[e]
  /\ latRef' = animateLat(gyroActiveRef, latRef)
  /\ camQuat' = [camQuat EXCEPT ![e] = animateQuat(gyroActiveRef, lonRef, latRef, @)]
  /\ lastTick' = tickRecord(e, gyroActiveRef)
  /\ UNCHANGED <<lonRef, lastMove, lastReading>>
  /\ IF glassesRef # 0
       THEN LET g == glassesRef
                p == polarAngle(camQuat'[e]) IN
            /\ gradient' = [gradient EXCEPT ![g] =
                 written(@, updateGradient(p, minPolarAngle, maxPolarAngle),
                         "gradCanvas", "rightGroup")]
            /\ opacityA' = [opacityA EXCEPT ![g] =
                 written(@, updateOpacityA(p), "lensAMesh", "leftGroup")]
            /\ opacityB' = [opacityB EXCEPT ![g] =
                 written(@, updateOpacityB(p), "lensBMesh", "leftGroup")]
            /\ altGradient' = [altGradient EXCEPT ![g] =
                 written(@, updateGradient(p, minPolarAngle, maxPolarAngle),
                         "gradCanvas", "rightGroupAlt")]
            /\ altOpacityA' = [altOpacityA EXCEPT ![g] =
                 written(@, updateOpacityA(p), "lensAMesh", "leftGroupAlt")]
            /\ altOpacityB' = [altOpacityB EXCEPT ![g] =
                 written(@, updateOpacityB(p), "lensBMesh", "leftGroupAlt")]
            /\ positionY' = [positionY EXCEPT ![g] = [grp \in Groups |->
                  animateSwapY(positionY[g][grp], targetY[g][grp], animating[g][grp])]]
            /\ animating' = [animating EXCEPT ![g] = [grp \in Groups |->
                  animateSwapFlag(positionY[g][grp], targetY[g][grp], animating[g][grp])]]
            /\ flight' = [flight EXCEPT ![g] = [eye \in Eyes |->
                  flightTick(flight[g][eye], animating[g][primaryOf(eye)])]]
            /\ UNCHANGED <<leftSwapped, rightSwapped, targetY, swapCalls>>
       ELSE UNCHANGED engineVars
  /\ UNCHANGED <<isIOS, models, cameraVars, readyVars, reactVars, modeVars, loadVars, lensVars, epochVars,
                 dragVars, sensorVars>>
  /\ lastFrame' = render(lensState(glassesRef), lensState(glassesRef)')

\* ---------------------------------------------------------------- drag
onPointerMoveLon_noOrigin(sx, x, down, lon) == sx - x
\* lonRef.current = (startX - x) * 0.1 + onPointerDownLon, in tenths of a degree
onPointerMoveLon(sx, x, down, lon) == (sx - x) + down

\* latRef.current = (y - startY) * 0.1 + onPointerDownLat, in tenths of a degree
onPointerMoveLat(sy, y, down, lat) == (y - sy) + down

\* mousedown / touchstart on the canvas of closure e
onPointerDown(e, x, y) ==
  /\ listening[e]
  /\ isUserInteracting' = TRUE
  /\ startX' = x
  /\ startY' = y
  /\ onPointerDownLon' = lonRef
  /\ onPointerDownLat' = latRef
  /\ UNCHANGED <<isIOS, models, cameraVars, readyVars, engineVars, reactVars, modeVars, loadVars, lensVars, epochVars,
                 viewVars, sensorVars>>

\* mousemove / touchmove on the canvas of closure e
onPointerMove(e, x, y) ==
  /\ listening[e]
  /\ IF isUserInteracting
       THEN /\ lonRef' = onPointerMoveLon(startX, x, onPointerDownLon, lonRef)
            /\ latRef' = onPointerMoveLat(startY, y, onPointerDownLat, latRef)
            /\ Abs(lonRef') <= MaxLon
            /\ Abs(latRef') <= MaxLat
            /\ lastMove' = <<lonRef', latRef'>>
       ELSE UNCHANGED <<lonRef, latRef, lastMove>>
  /\ UNCHANGED <<camQuat, lastTick, lastFrame, lastReading>>
  /\ UNCHANGED <<isIOS, models, cameraVars, readyVars, engineVars, reactVars, modeVars, loadVars, lensVars, epochVars,
                 dragVars, sensorVars>>

\* mouseup / touchend on the canvas of closure e
onPointerUp(e) ==
  /\ listening[e]
  /\ isUserInteracting' = FALSE
  /\ UNCHANGED <<startX, startY, onPointerDownLon, onPointerDownLat>>
  /\ UNCHANGED <<isIOS, models, cameraVars, readyVars, engineVars, reactVars, modeVars, loadVars, lensVars, epochVars,
                 viewVars, sensorVars>>

\* ---------------------------------------------------------------- camera
\* a closure whose scene effect has not run has no camera
NoCamera == [position |-> << >>, aspect |-> << >>]

\* new THREE.PerspectiveCamera(60, width / height, 0.1, 100);
\* camera.position.set(0, 0, 0.01): position in hundredths
PerspectiveCamera(size) == [position |-> <<0, 0, 1>>, aspect |-> size]

resized_moved(cam, size) == [position |-> <<0, 0, 0>>, aspect |-> size]
\* onResize: camera.aspect = w / h; camera.updateProjectionMatrix()
resized(cam, size) == [cam EXCEPT !.aspect = size]

\* the window is resized to size; the resize listener of closure e runs
onResize(e, size) ==
  /\ listening[e]
  /\ size # innerSize
  /\ innerSize' = size
  /\ camera' = [camera EXCEPT ![e] = resized(camera[e], size)]
  /\ UNCHANGED <<isIOS, models, readyVars, engineVars, reactVars, modeVars, loadVars, lensVars,
                 epochVars, dragVars, viewVars, sensorVars>>

\* ---------------------------------------------------------------- sensors
testOrientationGyro_never(a, old) == old
\* testOrientation: if (event.alpha !== null) onGyroActiveChange(true)
testOrientationGyro(a, old) == IF ~IsNull(a) THEN TRUE ELSE old

\* testOrientation: window.removeEventListener('deviceorientation', testOrientation),
\* whatever the event was
testOrientationStays(a) == FALSE

\* onDeviceOrientation: if (alpha === null || beta === null || gamma === null) return
dropped(a, b, g) == IsNull(a) \/ IsNull(b) \/ IsNull(g)

captureOffset_every(a, init, off) == -Val(a)
\* if (!hasInitialized) { alphaOffset = -event.alpha; hasInitialized = true }
captureOffset(a, init, off) == IF ~init THEN -Val(a) ELSE off

\* onDeviceOrientation: the camera rotation written for a complete reading
orientationQuat(a, b, g, o, off) ==
  setObjectQuaternion(Val(a) + off, Val(b), Val(g), o)

\* One 'deviceorientation' event on window, delivered to the listeners that are
\* registered: testOrientation (ThreeView.tsx:734-737) and onDeviceOrientation
\* (ThreeView.tsx:702-718).  o is screen.orientation.angle at that moment.
deviceorientation(a, b, g, o) ==
  /\ mounted
  /\ lastAlpha' = a
  /\ IF probeOn
       THEN /\ gyroActive' = testOrientationGyro(a, gyroActive)
            /\ probeOn' = testOrientationStays(a)
       ELSE UNCHANGED <<gyroActive, probeOn>>
  /\ IF sensorCam # 0 /\ ~dropped(a, b, g)
       THEN /\ alphaOffset' = captureOffset(a, hasInitialized, alphaOffset)
            /\ hasInitialized' = TRUE
            /\ camQuat' = [camQuat EXCEPT ![sensorCam] =
                             orientationQuat(a, b, g, o, alphaOffset')]
            /\ lastReading' = [cam |-> sensorCam, quat |-> camQuat'[sensorCam]]
       ELSE UNCHANGED <<alphaOffset, hasInitialized, camQuat, lastReading>>
  /\ UNCHANGED <<sensorCam, lonRef, latRef, lastTick, lastFrame, lastMove>>
  /\ UNCHANGED <<gyroActiveRef, showEnableButton, permPending, permResult>>
  /\ UNCHANGED <<isIOS, models, cameraVars, readyVars, engineVars, reactVars, loadVars, lensVars, epochVars, dragVars>>

\* ---------------------------------------------------------------- permission

\* click on "Tap to Enable Motion Controls", rendered when
\* showEnableButton && !gyroActive: enableMotionControls up to its await
enableMotionControls ==
  /\ mounted
  /\ showEnableButton /\ ~gyroActiveRef
  /\ permPending < MaxPending
  /\ permPending' = permPending + 1
  /\ UNCHANGED <<gyroActive, gyroActiveRef, showEnableButton, permResult>>
  /\ UNCHANGED <<isIOS, models, cameraVars, readyVars, engineVars, reactVars, loadVars, lensVars, epochVars,
                 dragVars, viewVars, sensorVars>>

grantedBy_any(outcome) == outcome # "rejected"
\* if (permission === 'granted'); a rejection lands in the empty catch
grantedBy(outcome) == outcome = "granted"

\* requestPermission() settles: the rest of enableMotionControls
permissionSettled(outcome) ==
  /\ permPending > 0
  /\ permPending' = permPending - 1
  /\ permResult' = outcome
  /\ IF grantedBy(outcome) /\ mounted
       THEN gyroActive' = TRUE /\ showEnableButton' = FALSE
       ELSE UNCHANGED <<gyroActive, showEnableButton>>
  /\ UNCHANGED gyroActiveRef
  /\ UNCHANGED <<isIOS, models, cameraVars, readyVars, engineVars, reactVars, loadVars, lensVars, epochVars,
                 dragVars, viewVars, sensorVars>>

\* ---------------------------------------------------------------- React
\* the scene selector navigates to another scene (Scene.tsx:86-89)
Navigate(s) ==
  /\ mounted
  /\ s # route
  /\ navs < MaxNav
  /\ route' = s
  /\ navs' = navs + 1
  /\ UNCHANGED <<mounted, image, effPending, effImage, effGyro>>
  /\ UNCHANGED <<isIOS, models, cameraVars, readyVars, engineVars, modeVars, loadVars, lensVars, epochVars,
                 dragVars, viewVars, sensorVars>>

\* ThreeView renders with the current props and state; line 451 syncs the ref.
\* Effects of the previous render are flushed before a new render starts.
Render ==
  /\ mounted
  /\ ~effPending
  /\ image # route \/ gyroActiveRef # gyroActive
  /\ image' = route
  /\ gyroActiveRef' = gyroActive
  /\ effPending' = TRUE
  /\ UNCHANGED <<route, mounted, navs, effImage, effGyro>>
  /\ UNCHANGED <<gyroActive, showEnableButton, permPending, permResult>>
  /\ UNCHANGED <<isIOS, models, cameraVars, readyVars, engineVars, loadVars, lensVars, epochVars,
                 dragVars, viewVars, sensorVars>>

cleanedRaf_keep(c) == raf
\* cleanup of the scene effect (ThreeView.tsx:647-663) for closure c
cleanedRaf(c) == [raf EXCEPT ![c] = FALSE]
cleanedListening(c) == [listening EXCEPT ![c] = FALSE]

sensorTarget_always(gyro, newCam, oldCam) == newCam
sensorTarget_keep(gyro, newCam, oldCam) == oldCam
\* sensor effect body (ThreeView.tsx:670-672, 720): the camera the new
\* onDeviceOrientation listener captures, 0 when no listener is added
sensorTarget(gyro, newCam, oldCam) == IF gyro /\ newCam # 0 THEN newCam ELSE 0

onReady_unset(given, stillLoading) == "none"
\* onReady?.({ scene, camera, renderer }) at the end of the scene effect body:
\* what the call, if any, finds the loading state to be
onReady(given, stillLoading) ==
  IF ~given THEN "none" ELSE IF stillLoading THEN "loading" ELSE "ready"

\* The effects of the last render run: cleanups of the effects whose
\* dependencies changed, then their bodies, in declaration order
\* (scene effect 472-664, sensor effect 669-725).
RunEffects ==
  /\ mounted
  /\ effPending
  /\ effPending' = FALSE
  /\ effImage' = image
  /\ effGyro' = gyroActiveRef
  /\ IF image # effImage
       THEN LET e == nEpoch + 1 IN
            /\ nEpoch' = e
            /\ cur' = e
            /\ cameraRef' = e
            /\ camera' = [camera EXCEPT ![e] = PerspectiveCamera(innerSize)]
            /\ sceneOf' = [sceneOf EXCEPT ![e] = image]
            /\ raf' = [cleanedRaf(cur) EXCEPT ![e] = TRUE]
            /\ listening' = [cleanedListening(cur) EXCEPT ![e] = TRUE]
            /\ lens' = [dispose(lens, glassesRef) EXCEPT ![e] = "loading"]
            /\ glassesRef' = 0
            /\ loading' = TRUE
            /\ texReq' = [texReq EXCEPT ![e] = "pending"]
            /\ modelReq' = [modelReq EXCEPT ![e] = models[image]]
            /\ latRef' = animateLat(gyroActiveRef, latRef)
            /\ camQuat' = [camQuat EXCEPT ![e] =
                             animateQuat(gyroActiveRef, lonRef, latRef, IdentityQuat)]
            /\ lastTick' = tickRecord(e, gyroActiveRef)
            /\ lastFrame' = render(<< >>, << >>)
            /\ isUserInteracting' = FALSE
            /\ startX' = 0
            /\ startY' = 0
            /\ onPointerDownLon' = 0
            /\ onPointerDownLat' = 0
       ELSE /\ UNCHANGED <<nEpoch, cur, cameraRef, camera, sceneOf, raf, listening>>
            /\ UNCHANGED <<lens, glassesRef, loading, texReq, modelReq>>
            /\ UNCHANGED <<latRef, camQuat, lastTick, lastFrame, dragVars>>
  /\ sensorCam' = sensorTarget(gyroActiveRef, cameraRef', sensorCam)
  /\ alphaOffset' = 0
  /\ hasInitialized' = FALSE
  /\ UNCHANGED <<route, mounted, navs, image>>
  /\ UNCHANGED <<textureLoaded, modelsLoaded, glassesControls, lonRef>>
  /\ UNCHANGED <<lastMove, lastReading>>
  /\ UNCHANGED <<probeOn, lastAlpha>>
  /\ onReadyAt' = IF image # effImage
                  THEN [onReadyAt EXCEPT ![nEpoch'] = onReady(onReadyProp, loading')]
                  ELSE onReadyAt
  /\ UNCHANGED <<isIOS, models, innerSize, onReadyProp, engineVars, modeVars>>

\* The page is left: every effect of ThreeView is cleaned up
\* (ThreeView.tsx:647-663, 722-724, 740-741).
Unmount ==
  /\ mounted
  /\ mounted' = FALSE
  /\ effPending' = FALSE
  /\ cur' = 0
  /\ raf' = cleanedRaf(cur)
  /\ listening' = cleanedListening(cur)
  /\ lens' = dispose(lens, glassesRef)
  /\ glassesRef' = 0
  /\ sensorCam' = 0
  /\ probeOn' = FALSE
  /\ UNCHANGED <<route, navs, image, effImage, effGyro>>
  /\ UNCHANGED <<nEpoch, sceneOf, cameraRef, glassesControls>>
  /\ UNCHANGED <<alphaOffset, hasInitialized, lastAlpha>>
  /\ UNCHANGED <<isIOS, models, cameraVars, readyVars, engineVars, modeVars, loadVars, dragVars, viewVars>>

\* ---------------------------------------------------------------- behaviours
\* The state after the first render and its effects: closure 1 is live, its
\* loads are in flight, animate has run once with lon = lat = 0.
Init ==
  /\ isIOS \in BOOLEAN
  /\ models \in ModelTables
  /\ route \in SceneNames
  /\ mounted = TRUE
  /\ navs = 0
  /\ image = route
  /\ effPending = FALSE
  /\ effImage = route
  /\ effGyro = FALSE
  /\ gyroActive = FALSE
  /\ gyroActiveRef = FALSE
  /\ showEnableButton = isIOS
  /\ permPending = 0
  /\ permResult = "none"
  /\ loading = TRUE
  /\ nEpoch = 1
  /\ cur = 1
  /\ sceneOf = [e \in Epochs |-> IF e = 1 THEN route ELSE "none"]
  /\ texReq = [e \in Epochs |-> IF e = 1 THEN "pending" ELSE "idle"]
  /\ modelReq = [e \in Epochs |-> IF e = 1 THEN models[route] ELSE 0]
  /\ textureLoaded = [e \in Epochs |-> FALSE]
  /\ modelsLoaded = [e \in Epochs |-> 0]
  /\ lens = [e \in Epochs |-> IF e = 1 THEN "loading" ELSE "none"]
  /\ cameraRef = 1
  /\ glassesRef = 0
  /\ glassesControls = 0
  /\ raf = [e \in Epochs |-> e = 1]
  /\ listening = [e \in Epochs |-> e = 1]
  /\ isUserInteracting = FALSE
  /\ startX = 0
  /\ startY = 0
  /\ onPointerDownLon = 0
  /\ onPointerDownLat = 0
  /\ lonRef = 0
  /\ latRef = 0
  /\ camQuat = [e \in Epochs |-> IF e = 1 THEN lookAt(0, 0) ELSE IdentityQuat]
  /\ probeOn = ~isIOS
  /\ sensorCam = 0
  /\ alphaOffset = 0
  /\ hasInitialized = FALSE
  /\ lastAlpha = Absent
  /\ lastTick = tickRecord(1, FALSE)
  /\ lastFrame = render(<< >>, << >>)
  /\ lastMove = <<0, 0>>
  /\ lastReading = [cam |-> 0, quat |-> IdentityQuat]
  /\ leftSwapped = [e \in Epochs |-> FALSE]
  /\ rightSwapped = [e \in Epochs |-> FALSE]
  /\ positionY = [e \in Epochs |-> [grp \in Groups |->
                     IF grp \in {"leftGroup", "rightGroup"} THEN 0 ELSE -travel]]
  /\ targetY = [e \in Epochs |-> [grp \in Groups |-> Absent]]
  /\ animating = [e \in Epochs |-> [grp \in Groups |-> Absent]]
  /\ opacityA = [e \in Epochs |-> 1000000000]
  /\ opacityB = [e \in Epochs |-> 0]
  /\ gradient = [e \in Epochs |-> createGradientCanvas]
  /\ swapCalls = [e \in Epochs |-> [eye \in Eyes |-> 0]]
  /\ flight = [e \in Epochs |-> [eye \in Eyes |-> 0]]
  /\ altOpacityA = [e \in Epochs |-> 1000000000]
  /\ altOpacityB = [e \in Epochs |-> 0]
  /\ altGradient = [e \in Epochs |-> createGradientCanvas]
  /\ onReadyProp \in BOOLEAN
  /\ onReadyAt = [e \in Epochs |-> IF e = 1 THEN onReady(onReadyProp, TRUE) ELSE "none"]
  /\ innerSize = <<800, 600>>
  /\ camera = [e \in Epochs |-> IF e = 1 THEN PerspectiveCamera(innerSize) ELSE NoCamera]

LoadStep ==
  \/ \E e \in Epochs : onTextureLoaded(e)
  \/ \E e \in Epochs : onModelLoaded(e)
  \/ \E e \in Epochs : onGlassesLoaded(e)

FailStep ==
  \/ \E e \in Epochs : onTextureFailed(e)
  \/ \E e \in Epochs : onModelFailed(e)
  \/ \E e \in Epochs : onGlassesFailed(e)

ReactStep ==
  \/ \E s \in SceneNames : Navigate(s)
  \/ Render
  \/ RunEffects
  \/ Unmount

DragStep ==
  \/ \E e \in Epochs, x \in Xs, y \in Ys : onPointerDown(e, x, y)
  \/ \E e \in Epochs, x \in Xs, y \in Ys : onPointerMove(e, x, y)
  \/ \E e \in Epochs : onPointerUp(e)

SensorStep ==
  \/ \E a \in Alphas, b \in Betas, g \in Gammas, o \in Orients :
       deviceorientation(a, b, g, o)
  \/ enableMotionControls
  \/ \E r \in Outcomes : permissionSettled(r)

FrameStep == \E e \in Epochs : animate(e)

LensStep ==
  \/ onSwapLeft
  \/ onSwapRight

ResizeStep == \E e \in Epochs, size \in Sizes : onResize(e, size)

Next ==
  \/ LoadStep \/ FailStep \/ ReactStep \/ DragStep \/ SensorStep \/ FrameStep \/ LensStep
  \/ ResizeStep

Spec == Init /\ [][Next]_vars

\* Scene.tsx:29-50: both scenes place one model
SceneTable == [s \in SceneNames |-> 1]

\* asset loading and scene replacement, whatever the input devices do
NextLoad == LoadStep \/ ReactStep
InitLoad == Init /\ ~isIOS
SpecLoad == InitLoad /\ [][NextLoad]_vars

\* asset loading where any load may fail, across scene changes
NextFail == LoadStep \/ FailStep \/ ReactStep
InitFail == Init /\ ~isIOS /\ ~onReadyProp
SpecFail == InitFail /\ [][NextFail]_vars

\* pointer drag and the frame loop across scene changes, sensors silent
NextDrag == ReactStep \/ DragStep \/ FrameStep
InitDrag == Init /\ ~isIOS /\ models = SceneTable /\ route = "biking" /\ ~onReadyProp
SpecDrag == InitDrag /\ [][NextDrag]_vars

\* horizontal drags that start at the left edge
DragStepX ==
  \/ \E e \in Epochs : onPointerDown(e, 0, 0)
  \/ \E e \in Epochs, x \in Xs : onPointerMove(e, x, 0)
  \/ \E e \in Epochs : onPointerUp(e)

\* sensor events, the permission gate, mode arbitration and the frame loop
NextSensor == ReactStep \/ DragStepX \/ SensorStep \/ FrameStep
InitSensor == Init /\ models = SceneTable /\ route = "biking" /\ ~onReadyProp
SpecSensor == InitSensor /\ [][NextSensor]_vars

\* the lens engine of the first scene: its load, the swap buttons, the frames
LensLoaded == \E e \in Epochs : onGlassesLoaded(e)
NextLens == LensLoaded \/ LensStep \/ FrameStep
InitLens == Init /\ ~isIOS /\ models = SceneTable /\ route = "biking" /\ ~onReadyProp
SpecLens == InitLens /\ [][NextLens]_vars

\* one vertical drag, pressed at mid-screen while the view is level
DragStepY ==
  \/ \E e \in Epochs : latRef = 0 /\ onPointerDown(e, 0, 900)
  \/ \E e \in Epochs, y \in YsFine : onPointerMove(e, 0, y)
  \/ \E e \in Epochs : onPointerUp(e)

\* the lens optics of the first scene under a vertical drag
NextOptics == LensLoaded \/ DragStepY \/ FrameStep
InitOptics == Init /\ ~isIOS /\ models = SceneTable /\ route = "biking" /\ ~onReadyProp
SpecOptics == InitOptics /\ [][NextOptics]_vars

\* a device-orientation event on a device that asks no permission
OrientationStep ==
  \E a \in Alphas, b \in Betas, g \in Gammas, o \in Orients : deviceorientation(a, b, g, o)

\* everything that reaches the camera: drags, sensor readings, resizes, frames,
\* across scene changes
NextCamera == ReactStep \/ DragStepX \/ OrientationStep \/ ResizeStep \/ FrameStep
InitCamera == Init /\ ~isIOS /\ models = SceneTable /\ route = "biking" /\ ~onReadyProp
SpecCamera == InitCamera /\ [][NextCamera]_vars

\* a swap button is clicked while no group of the engine is in flight
AtRest ==
  /\ glassesControls # 0
  /\ \A grp \in Groups : ~truthy(animating[glassesControls][grp])
LensStepAtRest ==
  \/ AtRest /\ onSwapLeft
  \/ AtRest /\ onSwapRight

\* one vertical drag from mid-screen: a little up the screen, or far down it
DragStepLook ==
  \/ \E e \in Epochs : latRef = 0 /\ onPointerDown(e, 0, 900)
  \/ \E e \in Epochs, y \in {890, 1080} : onPointerMove(e, 0, y)
  \/ \E e \in Epochs : onPointerUp(e)

\* the lens optics of the first scene while the view is tilted and the
\* lenses are swapped, one flight at a time
NextSwapOptics == LensLoaded \/ DragStepLook \/ LensStepAtRest \/ FrameStep
InitSwapOptics == Init /\ ~isIOS /\ models = SceneTable /\ route = "biking" /\ ~onReadyProp
SpecSwapOptics == InitSwapOptics /\ [][NextSwapOptics]_vars

\* ================================================================ claims
ready == ~loading

\* closure e has seen its texture callback and all of its model callbacks
allLoaded(e) == textureLoaded[e] /\ modelsLoaded[e] = totalModels(e)

\* C1: for one mounted scene configuration (no earlier configuration of the
\* page has completed its loads, so every completion that has fired a check is
\* its own), the scene is ready if and only if its texture callback and all M
\* of its model callbacks have run; with M = 0 that is at the texture callback.
C1_ReadyIffAllLoaded ==
  (mounted /\ \A f \in 1..(cur - 1) : ~allLoaded(f))
    => (ready <=> allLoaded(cur))

C1_Witness ==
  /\ mounted /\ cur = 1 /\ totalModels(1) = 2
  /\ ready /\ modelsLoaded[1] = 2 /\ textureLoaded[1]

\* C2: after a configuration change the scene is not ready until the new
\* configuration's own texture and all of its models have completed.
C2_NotReadyBeforeOwnLoads ==
  (mounted /\ cur > 1 /\ ~allLoaded(cur)) => ~ready

\* C3: no torn-down scene has lens groups attached to its camera.
C3_NoGroupsOnTornDownCamera ==
  \A e \in Epochs : (e <= nEpoch /\ e # cur) => lens[e] # "attached"

\* C4: without a permission gate, once an event with a non-null alpha has been
\* delivered to the mounted page, sensor mode is active.
C4_ActiveAfterValidEvent ==
  (~isIOS /\ mounted /\ ~IsNull(lastAlpha)) => gyroActive

\* C5: exactly one sub-mode writes the camera rotation: the sensor listener
\* is registered only while sensor mode is active, and a step that changes a
\* camera rotation leaves the mode alone and writes a drag (lookAt) rotation
\* while sensor mode is inactive, a sensor rotation while it is active.
C5_OneWriter ==
  /\ [](sensorCam # 0 => gyroActiveRef)
  /\ [][\A e \in Epochs :
          camQuat'[e] # camQuat[e] =>
            /\ gyroActiveRef' = gyroActiveRef
            /\ camQuat'[e].kind = IF gyroActiveRef THEN "sensor" ELSE "lookAt"]_vars

C5_Witness ==
  /\ gyroActiveRef /\ sensorCam = cur /\ cur # 0
  /\ camQuat[cur].kind = "sensor"
  /\ lonRef # 0 /\ isUserInteracting
  /\ lastTick = [epoch |-> cur, drag |-> FALSE]

\* C6: sensor mode is never deactivated, and once the frame loop sees it
\* active no tick runs the drag branch or writes a drag rotation again,
\* scene changes included.
C6_SensorModePermanent ==
  [][/\ gyroActive => gyroActive'
     /\ gyroActiveRef =>
          /\ gyroActiveRef'
          /\ ~lastTick'.drag \/ lastTick' = lastTick
          /\ \A e \in Epochs :
               camQuat'[e] # camQuat[e] => camQuat'[e].kind # "lookAt"]_vars

C6_Witness ==
  /\ gyroActiveRef /\ nEpoch = 2 /\ cur = 2
  /\ lastTick = [epoch |-> 2, drag |-> FALSE]
  /\ lonRef # 0

\* C7: behind the permission gate sensor mode becomes active only in the step
\* in which a permission request settles 'granted'; a request that settles
\* otherwise changes nothing else, starts no new request and leaves the
\* enable button as it was.
C7_OnlyGrantedActivates ==
  [][isIOS =>
       /\ (~gyroActive /\ gyroActive') =>
            (permPending' = permPending - 1 /\ permResult' = "granted")
       /\ (permPending' < permPending /\ permResult' # "granted") =>
            /\ permPending' = permPending - 1
            /\ UNCHANGED <<gyroActive, gyroActiveRef, showEnableButton>>
            /\ UNCHANGED <<reactVars, loadVars, lensVars, epochVars, dragVars,
                           viewVars, sensorVars>>]_vars

C7_Witness ==
  /\ isIOS /\ mounted
  /\ permResult \in {"denied", "rejected"}
  /\ ~IsNull(lastAlpha)
  /\ ~gyroActive /\ showEnableButton /\ permPending = 0

\* C8: an event with a null alpha, beta or gamma changes neither a camera
\* rotation, nor the alpha offset, nor the mode.
C8_NullEventIgnored ==
  [][\A a \in Alphas, b \in Betas, g \in Gammas, o \in Orients :
       (dropped(a, b, g) /\ deviceorientation(a, b, g, o)) =>
         UNCHANGED <<camQuat, alphaOffset, gyroActive, gyroActiveRef>>]_vars

\* C9: within one sensor session the first complete reading sets the offset
\* to minus its alpha and is applied with effective alpha 0; later readings
\* leave the offset alone; every complete reading is applied with
\* alpha + offset, beta and gamma as read.
C9_OffsetCapturedOnce ==
  [][\A a \in Alphas, b \in Betas, g \in Gammas, o \in Orients :
       (sensorCam # 0 /\ a # Absent /\ b # Absent /\ g # Absent
          /\ deviceorientation(a, b, g, o)) =>
         /\ hasInitialized'
         /\ hasInitialized => alphaOffset' = alphaOffset
         /\ ~hasInitialized => (alphaOffset' = -a[1] /\ camQuat'[sensorCam].y = 0)
         /\ camQuat'[sensorCam] =
              [kind |-> "sensor", x |-> b[1], y |-> a[1] + alphaOffset',
               z |-> -g[1], zee |-> -o]]_vars

C9_Witness ==
  /\ sensorCam # 0 /\ hasInitialized
  /\ alphaOffset = -40
  /\ lastAlpha = <<0>>
  /\ camQuat[sensorCam].kind = "sensor" /\ camQuat[sensorCam].y = -40

\* C10: pointer input changes the stored longitude / latitude only by a move
\* while pressed, to (startX - x) + origin and (y - startY) + origin (tenths
\* of a degree, 0.1 per pixel), start and origin being those of the latest
\* press; the only other change is the tick's clamp of the latitude.
C10_DragFormula ==
  [][/\ lonRef' # lonRef =>
          (isUserInteracting /\ \E x \in Xs : lonRef' = (startX - x) + onPointerDownLon)
     /\ latRef' # latRef =>
          \/ isUserInteracting /\ \E y \in Ys : latRef' = (y - startY) + onPointerDownLat
          \/ lastTick'.drag /\ latRef' = Max(-850, Min(850, latRef))
     /\ (startX' # startX \/ startY' # startY \/ onPointerDownLon' # onPointerDownLon
           \/ onPointerDownLat' # onPointerDownLat) =>
          \/ /\ isUserInteracting'
             /\ onPointerDownLon' = lonRef /\ onPointerDownLat' = latRef
             /\ lonRef' = lonRef /\ latRef' = latRef
          \/ nEpoch' = nEpoch + 1]_vars

C10_Witness ==
  /\ isUserInteracting /\ startX = 100 /\ onPointerDownLon = 0
  /\ lonRef = 100 /\ latRef = onPointerDownLat

\* C11: whatever the drag sequence, a tick that runs the drag branch orients
\* the camera with a latitude within [-85, 85] degrees and leaves the stored
\* latitude within [-85, 85] degrees; the first tick of a new scene included.
C11_TickClampsLat ==
  [][/\ \A e \in Epochs :
          (~gyroActiveRef /\ animate(e)) =>
            /\ camQuat'[e].kind = "lookAt"
            /\ camQuat'[e].lat \in -850..850
            /\ latRef' \in -850..850
     /\ (~gyroActiveRef /\ nEpoch' = nEpoch + 1) =>
            /\ camQuat'[cur'].kind = "lookAt"
            /\ camQuat'[cur'].lat \in -850..850
            /\ latRef' \in -850..850]_vars

C11_Witness ==
  /\ cur # 0 /\ lastTick = [epoch |-> cur, drag |-> TRUE]
  /\ latRef = 850 /\ onPointerDownLat = 0 /\ startY = 0
  /\ camQuat[cur] = lookAt(lonRef, 850)

\* C12: while the frame loop sees sensor mode active, a pointer move while
\* pressed is still recorded into the stored longitude / latitude by the drag
\* formula, and no tick (the first tick of a new scene included) writes a
\* camera rotation or touches the stored angles.
C12_DragRecordedNotApplied ==
  [][gyroActiveRef =>
       /\ \A e \in Epochs, x \in Xs :
            (listening[e] /\ isUserInteracting /\ onPointerMove(e, x, 0)) =>
              /\ lonRef' = (startX - x) + onPointerDownLon
              /\ latRef' = (0 - startY) + onPointerDownLat
              /\ camQuat' = camQuat
       /\ \A e \in Epochs :
            (raf[e] /\ animate(e)) => UNCHANGED <<camQuat, lonRef, latRef>>
       /\ nEpoch' = nEpoch + 1 =>
            /\ camQuat' = [camQuat EXCEPT ![cur'] = IdentityQuat]
            /\ UNCHANGED <<lonRef, latRef>>]_vars

C12_Witness ==
  /\ gyroActiveRef /\ cur = 2 /\ isUserInteracting
  /\ lonRef # onPointerDownLon
  /\ camQuat[2] = IdentityQuat
  /\ lastTick = [epoch |-> 2, drag |-> FALSE]

\* C13: a tick of the live scene renders the orientation of the last writer
\* before it, however many events were handled since the previous tick: in
\* drag mode the rotation looking along the longitude and (clamped) latitude
\* of the most recent pointer move, in sensor mode the rotation written by the
\* most recent complete sensor reading handled for this scene's camera.
C13_LastWriterWins ==
  [][\A e \in Epochs :
       (raf[e] /\ e = cur /\ animate(e)) =>
         /\ ~gyroActiveRef =>
              camQuat'[e] = lookAt(lastMove[1], Max(-850, Min(850, lastMove[2])))
         /\ (gyroActiveRef /\ lastReading.cam = e) =>
              camQuat'[e] = lastReading.quat]_vars

C13_Witness ==
  /\ cur = 2 /\ lastTick = [epoch |-> 2, drag |-> FALSE]
  /\ lastMove = <<-100, 0>> /\ camQuat[1] = lookAt(-100, 0)
  /\ lastReading.cam = 2 /\ lastReading.quat.kind = "sensor"
  /\ camQuat[2] = lastReading.quat

\* C14: once an eye's swap function has been called n >= 1 times on a lens
\* engine, in any interleaving with frames and with the other eye's swaps,
\* its primary group targets 0.6 and its alternate 0 when n is odd, 0 and
\* -0.6 when n is even; and every call leaves both groups flagged animating.
C14_SwapParity ==
  /\ [](\A g \in Epochs, eye \in Eyes :
          swapCalls[g][eye] >= 1 =>
            /\ targetY[g][primaryOf(eye)] =
                 <<IF swapCalls[g][eye] % 2 = 1 THEN 600000 ELSE 0>>
            /\ targetY[g][alternateOf(eye)] =
                 <<IF swapCalls[g][eye] % 2 = 1 THEN 0 ELSE -600000>>)
  /\ [][\A g \in Epochs, eye \in Eyes :
          swapCalls'[g][eye] # swapCalls[g][eye] =>
            /\ animating'[g][primaryOf(eye)] = <<TRUE>>
            /\ animating'[g][alternateOf(eye)] = <<TRUE>>]_vars

C14_Witness ==
  /\ swapCalls[1]["left"] = 2
  /\ targetY[1]["leftGroup"] = <<0>> /\ targetY[1]["leftGroupAlt"] = <<-600000>>
  /\ positionY[1]["leftGroup"] \notin {0, 600000}
  /\ animating[1]["leftGroup"] = <<TRUE>>
  /\ targetY[1]["rightGroup"] = Absent

\* C15: the primary and the alternate group of an eye are never both at
\* vertical offset 0; and whenever neither is animating, the primary is at 0
\* or 0.6, the alternate at -0.6 or 0, and exactly one of them is at 0: the
\* alternate if and only if the eye is swapped.
C15_OneVariantInView ==
  \A g \in Epochs, eye \in Eyes :
    LET py == positionY[g][primaryOf(eye)]
        ay == positionY[g][alternateOf(eye)]
        swapped == IF eye = "left" THEN leftSwapped[g] ELSE rightSwapped[g]
    IN /\ ~(py = 0 /\ ay = 0)
       /\ (animating[g][primaryOf(eye)] # <<TRUE>>
             /\ animating[g][alternateOf(eye)] # <<TRUE>>) =>
            /\ py \in {0, 600000}
            /\ ay \in {-600000, 0}
            /\ (ay = 0) <=> swapped
            /\ (py = 0) <=> ~swapped

C15_Witness ==
  /\ rightSwapped[1] /\ ~leftSwapped[1]
  /\ animating[1]["rightGroup"] = <<FALSE>> /\ animating[1]["rightGroupAlt"] = <<FALSE>>
  /\ positionY[1]["rightGroup"] = 600000 /\ positionY[1]["rightGroupAlt"] = 0
  /\ animating[1]["leftGroup"] = Absent

\* C16: a frame's animateSwap moves every animating group by 0.08 of its
\* remaining distance towards its target and never past it; a group that
\* comes within 0.001 of the target is put exactly on it and its flag is
\* cleared; a group whose flag is cleared rests on its target and later
\* frames leave it there with the flag cleared.
C16_LerpAndSnap ==
  /\ [](\A g \in Epochs, grp \in Groups :
          animating[g][grp] = <<FALSE>> => positionY[g][grp] = targetY[g][grp][1])
  /\ [][\A e \in Epochs :
          (raf[e] /\ glassesRef # 0 /\ animate(e)) =>
            \A grp \in Groups :
              LET y == positionY[glassesRef][grp]
                  ny == positionY'[glassesRef][grp]
                  a == animating[glassesRef][grp]
                  na == animating'[glassesRef][grp]
                  t == targetY[glassesRef][grp]
              IN /\ a = <<TRUE>> =>
                      LET rem == t[1] - y
                          step == IF rem >= 0 THEN (rem * 8 + 50) \div 100
                                  ELSE -((-rem * 8 + 50) \div 100)
                          left == IF rem - step >= 0 THEN rem - step ELSE step - rem
                      IN /\ left < 1000 => (ny = t[1] /\ na = <<FALSE>>)
                         /\ left >= 1000 => (ny = y + step /\ na = <<TRUE>>)
                         /\ rem >= 0 => (y <= ny /\ ny <= t[1])
                         /\ rem <= 0 => (t[1] <= ny /\ ny <= y)
                 /\ a = <<FALSE>> => (ny = y /\ na = <<FALSE>>)]_vars

C16_Witness ==
  /\ animating[1]["rightGroup"] = <<FALSE>> /\ positionY[1]["rightGroup"] = 600000
  /\ animating[1]["leftGroup"] = <<TRUE>> /\ positionY[1]["leftGroup"] = 48000
  /\ positionY[1]["leftGroupAlt"] = -552000

\* C17: a frame's animateSwap on a lens engine none of whose groups is
\* animating, a fresh engine whose targets and flags were never set included,
\* changes no group's position, target or flag.
C17_IdleFrameChangesNothing ==
  [][\A e \in Epochs :
       (raf[e] /\ glassesRef # 0 /\ animate(e)
          /\ \A grp \in Groups : animating[glassesRef][grp] # <<TRUE>>) =>
         /\ positionY'[glassesRef] = positionY[glassesRef]
         /\ targetY'[glassesRef] = targetY[glassesRef]
         /\ animating'[glassesRef] = animating[glassesRef]]_vars

C17_Witness ==
  /\ glassesRef = 1 /\ gradient[1].stops = <<0, 35, 55, 100>>
  /\ \A grp \in Groups : animating[1][grp] = Absent /\ targetY[1][grp] = Absent
  /\ positionY[1]["leftGroup"] = 0 /\ positionY[1]["leftGroupAlt"] = -600000
  /\ positionY[1]["rightGroup"] = 0 /\ positionY[1]["rightGroupAlt"] = -600000

\* C18: a frame that updates the lens with the gaze one degree or more below
\* the horizon (polar angle >= 91 degrees) leaves the inverted-map mesh fully
\* in (opacity 1) and the normal-map mesh fully out (opacity 0), and a frame
\* with the gaze level or above the horizon leaves the inverted-map mesh out.
C18_FadesInLookingDown ==
  [][\A e \in Epochs :
       (raf[e] /\ glassesRef # 0 /\ animate(e)) =>
         LET p == polarAngle(camQuat'[e]) IN
         /\ p >= 910 => (opacityB'[glassesRef] = 1000000000 /\ opacityA'[glassesRef] = 0)
         /\ p <= 900 => (opacityB'[glassesRef] = 0 /\ opacityA'[glassesRef] = 1000000000)]_vars

C20_BandCenteredAtOffset ==
  [][\A e \in Epochs :
       (raf[e] /\ glassesRef # 0 /\ animate(e)) =>
         LET gr == gradient'[glassesRef]
             offset == -7680 * 405 + (polarAngle(camQuat'[e]) - 720) * 8192
         IN /\ gr.colors = <<"#fff", "#000", "#000", "#fff">>
            /\ 2 * gr.x0 + (gr.stops[2] + gr.stops[3]) * 256 * 405 = 2 * offset]_vars

\* C20 (amended): after a frame's update the right-lens gradient starts at
\* the offset mapped from the polar angle, is 256 pixels long, runs white,
\* black, black, white with the black band from 0.35 to 0.55 of its length,
\* so the middle of the band lies 0.45 * 256 = 115.2 pixels right of the
\* mapped offset.
C20_BandFollowsOffset ==
  [][\A e \in Epochs :
       (raf[e] /\ glassesRef # 0 /\ animate(e)) =>
         LET gr == gradient'[glassesRef]
             offset == -7680 * 405 + (polarAngle(camQuat'[e]) - 720) * 8192
         IN /\ gr.colors = <<"#fff", "#000", "#000", "#fff">>
            /\ gr.x0 = offset
            /\ gr.stops = <<0, 35, 55, 100>>
            /\ 2 * gr.x0 + (gr.stops[2] + gr.stops[3]) * 256 * 405
                 = 2 * offset + 2 * 11520 * 405]_vars

C20_Witness ==
  /\ glassesRef = 1 /\ camQuat[1] = lookAt(0, -225)
  /\ gradient[1].x0 = 512 * 405 /\ gradient[1].stops = <<0, 35, 55, 100>>

\* C21: for polar angles from 72 to 112.5 degrees the right-lens gradient
\* offset is linear and non-decreasing in the polar angle, -0.3 * 256 pixels
\* at 72 degrees and 0.02 * 256 pixels at 112.5 degrees; a frame with the
\* polar angle in that range draws the gradient at that offset, which lies
\* between the two end values.  Offsets are in 1/40500 pixel.
C21_OffsetLinearMonotone ==
  /\ [](/\ updateGradient(720, minPolarAngle, maxPolarAngle).x0 = -7680 * 405
        /\ updateGradient(1125, minPolarAngle, maxPolarAngle).x0 = 512 * 405
        /\ \A p \in 720..1124 :
             LET x(q) == updateGradient(q, minPolarAngle, maxPolarAngle).x0 IN
             /\ x(p + 1) >= x(p)
             /\ x(p + 1) - x(p) = x(721) - x(720)
             /\ 405 * (x(p) - x(720)) = (p - 720) * (x(1125) - x(720)))
  /\ [][\A e \in Epochs :
          (raf[e] /\ glassesRef # 0 /\ animate(e)) =>
            LET p == polarAngle(camQuat'[e])
                x == gradient'[glassesRef].x0 IN
            (720 <= p /\ p <= 1125) =>
              /\ -7680 * 405 <= x /\ x <= 512 * 405
              /\ 405 * (x + 7680 * 405) = (p - 720) * 8192 * 405]_vars

C21_Witness ==
  /\ glassesRef = 1 /\ camQuat[1] = lookAt(0, 180)
  /\ gradient[1].x0 = -7680 * 405

C23_OnReadyOnlyWhenLoaded ==
  \A e \in Epochs : onReadyAt[e] # "loading"

\* C24: while a texture or model load of the current configuration has
\* failed, the scene is not ready, whatever other loads complete; and a
\* failing load changes no counter and not the loading state.
C24_FailedLoadNeverReady ==
  /\ []((mounted /\ cur # 0
          /\ (texReq[cur] = "failed" \/ modelsFailed(cur) > 0)) => ~ready)
  /\ [][\A e \in Epochs :
          (onTextureFailed(e) \/ onModelFailed(e)) =>
            UNCHANGED <<textureLoaded, modelsLoaded, loading>>]_vars

\* C25: no lens load has ended in a promise rejection handed to ThreeView.
C25_NoRejectionReachesCaller ==
  \A e \in Epochs : lens[e] # "rejected"

\* C26: the texture flag and the model counter of a closure never go back;
\* a closure whose loads have all completed has no callback left to run, so
\* its completion fires once; and a ready scene becomes not-ready again only
\* by the start of a new scene configuration.
C26_MonotoneAndOnce ==
  /\ [](\A e \in Epochs :
          (e <= nEpoch /\ allLoaded(e)) => (texReq[e] = "done" /\ modelReq[e] = 0))
  /\ [][/\ \A e \in Epochs :
            /\ textureLoaded[e] => textureLoaded'[e]
            /\ modelsLoaded'[e] >= modelsLoaded[e]
            /\ e <= nEpoch => modelsLoaded'[e] <= totalModels(e)
        /\ (ready /\ ~ready') => nEpoch' = nEpoch + 1]_vars

C26_Witness ==
  /\ mounted /\ nEpoch = 2 /\ cur = 2 /\ ready
  /\ totalModels(1) = 1 /\ totalModels(2) = 2
  /\ allLoaded(1) /\ allLoaded(2)

C29_LensOfLiveScene ==
  /\ mounted /\ glassesRef # 0 => glassesRef = cur
  /\ mounted /\ glassesControls # 0 => glassesControls = cur
\* C30: in every reachable state, whatever the interleaving of swaps and
\* frames (swaps during a flight included), the primary group of each eye is
\* 0.6 above its alternate group, and the two groups of an eye have the same
\* animating flag.
C30_EyeGroupsInLockstep ==
  \A g \in Epochs : \A eye \in Eyes :
    /\ positionY[g][primaryOf(eye)] = positionY[g][alternateOf(eye)] + travel
    /\ animating[g][primaryOf(eye)] = animating[g][alternateOf(eye)]

\* the left eye was swapped again while its first flight was under way, and
\* is now between its rest positions
C30_Witness ==
  /\ glassesRef = 1
  /\ swapCalls[1]["left"] = 2
  /\ animating[1]["leftGroup"] = <<TRUE>>
  /\ positionY[1]["leftGroup"] \notin {0, travel}
  /\ positionY[1]["leftGroupAlt"] \notin {-travel, 0}
\* C31: after a swap of an eye, with no further swap of that eye, the frames
\* clear the animating flag of both of its groups after at most 77 runs of
\* animateSwap, both in the same frame, and leave each group exactly at its
\* target: every frame that moves the eye is counted, a group still
\* animating has been through at most 76 of them, and the frame that clears
\* the primary group's flag clears the alternate group's and lands both.
C31_FlightEnds ==
  [][\A g \in Epochs : \A eye \in Eyes :
       LET p == primaryOf(eye)
           a == alternateOf(eye) IN
       /\ truthy(animating[g][p]) => flight[g][eye] <= 76
       /\ flight'[g][eye] <= 77
       /\ positionY'[g][p] # positionY[g][p]
            => truthy(animating[g][p]) /\ flight'[g][eye] = flight[g][eye] + 1
       /\ (truthy(animating[g][p]) /\ ~truthy(animating'[g][p]))
            => /\ animating'[g][a] = <<FALSE>>
               /\ animating'[g][p] = <<FALSE>>
               /\ positionY'[g][p] = targetY'[g][p][1]
               /\ positionY'[g][a] = targetY'[g][a][1]]_vars

\* a full travel of the left eye has just landed, on the 77th frame
C31_Witness ==
  /\ swapCalls[1]["left"] = 1
  /\ flight[1]["left"] = 77
  /\ animating[1]["leftGroup"] = <<FALSE>>
  /\ animating[1]["leftGroupAlt"] = <<FALSE>>
  /\ positionY[1]["leftGroup"] = travel
  /\ positionY[1]["leftGroupAlt"] = 0
\* C32: update changes only the primary assemblies: through every sequence
\* of updates, swaps and frames the two opacities of the alternate left lens
\* stay at their constructed values (1 and 0) and the gradient of the
\* alternate right lens stays as constructed, whatever the look angle.
C32_AlternateLensIsStatic ==
  \A g \in Epochs :
    /\ altOpacityA[g] = 1000000000
    /\ altOpacityB[g] = 0
    /\ altGradient[g] = createGradientCanvas

\* both alternate lenses are swapped in and at rest while the view looks up:
\* the primary left lens has cross-faded and the primary gradient has moved
C32_Witness ==
  /\ glassesRef = 1
  /\ leftSwapped[1] /\ rightSwapped[1]
  /\ positionY[1]["leftGroupAlt"] = 0
  /\ positionY[1]["rightGroupAlt"] = 0
  /\ opacityB[1] = 1000000000
  /\ gradient[1] # createGradientCanvas
  /\ gradient[1] # updateGradient(900, minPolarAngle, maxPolarAngle)
\* C33: swapLeft changes only the left pair's swapped flag, targets and
\* animating flags, no position and nothing of the right pair, and
\* symmetrically swapRight; so the two swaps commute, and a swap during a
\* flight retargets the groups from where they are.
C33_SwapTouchesOwnPairOnly ==
  [][swapCalls' # swapCalls => \A g \in Epochs :
       /\ swapCalls'[g]["left"] # swapCalls[g]["left"]
            => /\ positionY'[g] = positionY[g]
               /\ rightSwapped'[g] = rightSwapped[g]
               /\ \A grp \in {primaryOf("right"), alternateOf("right")} :
                    /\ targetY'[g][grp] = targetY[g][grp]
                    /\ animating'[g][grp] = animating[g][grp]
               /\ UNCHANGED <<opacityA, opacityB, gradient, altVars>>
               /\ leftSwapped'[g] = ~leftSwapped[g]
               /\ targetY'[g]["leftGroup"][1] = targetY'[g]["leftGroupAlt"][1] + travel
               /\ animating'[g]["leftGroup"] = <<TRUE>>
               /\ animating'[g]["leftGroupAlt"] = <<TRUE>>
       /\ swapCalls'[g]["right"] # swapCalls[g]["right"]
            => /\ positionY'[g] = positionY[g]
               /\ leftSwapped'[g] = leftSwapped[g]
               /\ \A grp \in {primaryOf("left"), alternateOf("left")} :
                    /\ targetY'[g][grp] = targetY[g][grp]
                    /\ animating'[g][grp] = animating[g][grp]
               /\ UNCHANGED <<opacityA, opacityB, gradient, altVars>>
               /\ rightSwapped'[g] = ~rightSwapped[g]
               /\ targetY'[g]["rightGroup"][1] = targetY'[g]["rightGroupAlt"][1] + travel
               /\ animating'[g]["rightGroup"] = <<TRUE>>
               /\ animating'[g]["rightGroupAlt"] = <<TRUE>>
       /\ swapTargets(swapTargets(targetY[g], "left", ~leftSwapped[g]),
                      "right", ~rightSwapped[g])
            = swapTargets(swapTargets(targetY[g], "right", ~rightSwapped[g]),
                          "left", ~leftSwapped[g])
       /\ swapFlags(swapFlags(animating[g], "left"), "right")
            = swapFlags(swapFlags(animating[g], "right"), "left")]_vars

\* the left eye has just been swapped back in mid-flight: its groups are
\* retargeted where they are, between their rest positions, while the right
\* eye has never been swapped
C33_Witness ==
  /\ swapCalls[1]["left"] = 2
  /\ swapCalls[1]["right"] = 0
  /\ flight[1]["left"] = 0
  /\ ~leftSwapped[1]
  /\ targetY[1]["leftGroup"] = <<0>>
  /\ positionY[1]["leftGroup"] \notin {0, travel}
  /\ animating[1]["leftGroup"] = <<TRUE>>
  /\ targetY[1]["rightGroup"] = Absent
  /\ animating[1]["rightGroup"] = Absent
\* C34: when the scene changes while sensor mode is active, the effects that
\* set up the new scene leave the sensor listener on the new scene's camera
\* with the offset reset and not yet captured; the first complete reading
\* after that captures the offset anew, as minus its alpha; and a sensor
\* rotation is only ever written to the camera of the live scene.
C34_SensorFollowsScene ==
  [][/\ (nEpoch' # nEpoch /\ gyroActiveRef)
          => /\ sensorCam' = nEpoch' /\ cur' = nEpoch' /\ cameraRef' = nEpoch'
             /\ alphaOffset' = 0
             /\ ~hasInitialized'
     /\ (sensorCam # 0 /\ ~hasInitialized /\ hasInitialized')
          => /\ alphaOffset' = -lastAlpha'[1]
             /\ camQuat'[sensorCam].y = 0
             /\ lastReading'.cam = cur
     /\ \A e \in Epochs :
          (camQuat'[e] # camQuat[e] /\ camQuat'[e].kind = "sensor")
            => (e = cur /\ e = sensorCam /\ mounted)
     /\ lastReading' # lastReading => lastReading'.cam = cur]_vars

\* the first scene was turned by sensor readings, then replaced; the first
\* reading in the second scene, with alpha 40, set the offset to -40 and
\* turned the second camera only
C34_Witness ==
  /\ nEpoch = 2 /\ cur = 2 /\ sensorCam = 2
  /\ hasInitialized /\ alphaOffset = -40 /\ lastAlpha = <<40>>
  /\ lastReading.cam = 2
  /\ camQuat[2].kind = "sensor" /\ camQuat[2].y = 0
  /\ camQuat[1].kind = "sensor" /\ camQuat[1].y # 0
\* C35: scene readiness does not depend on the lens engine - a lens load that
\* resolves changes neither the load counters nor the loading state, and a
\* scene whose own texture and models have completed is ready while its
\* lens load is still pending - and the swap controls are offered to the
\* page only once the lens engine of the mounted scene exists.
C35_ReadyWithoutLens ==
  /\ [][(\E e \in Epochs : lens[e] = "loading" /\ lens'[e] = "attached")
          => UNCHANGED loadVars]_vars
  /\ []((mounted /\ cur # 0 /\ allLoaded(cur) /\ \A f \in 1..(cur - 1) : ~allLoaded(f))
          => ready)
  /\ []((mounted /\ glassesControls # 0) => (cur # 0 /\ lens[cur] = "attached"))
\* C36: the right-lens gradient offset a frame draws lies within
\* [-0.3 * 256, 0.02 * 256] pixels exactly when the polar angle lies within
\* [72, 112.5] degrees; frames pass polar angles from 5 to 175 degrees, and
\* outside the interval the offset continues on the same line instead of
\* stopping at an end value.  Offsets are in 1/40500 pixel, angles in tenths
\* of a degree.
C36_OffsetExtrapolated ==
  [][\A e \in Epochs :
       (raf[e] /\ glassesRef # 0 /\ animate(e)) =>
         LET p == polarAngle(camQuat'[e])
             x == gradient'[glassesRef].x0 IN
         /\ 50 <= p /\ p <= 1750
         /\ (-7680 * 405 <= x /\ x <= 512 * 405)
              <=> (minPolarAngle <= p /\ p <= maxPolarAngle)
         /\ x = -7680 * 405 + (p - minPolarAngle) * 8192
         /\ p < minPolarAngle => x < -7680 * 405
         /\ p > maxPolarAngle => x > 512 * 405]_vars

\* a frame drawn while the view looks 85 degrees down: the polar angle is 175
\* degrees and the offset, about 131.5 pixels, lies right of the range
C36_Witness ==
  /\ glassesRef = 1 /\ camQuat[1] = lookAt(0, -850)
  /\ gradient[1].x0 = -7680 * 405 + 1030 * 8192
  /\ gradient[1].x0 > 512 * 405
====
